---- MODULE Spec2Model ----
(***************************************************************************)
(* type-surrealdb (index.ts): the schema registry kept by the Field and    *)
(* Table decorators on each class's static SurrealdbSchema, and            *)
(* generateSurqlSchema, which renders registered classes to SurrealQL.     *)
(*                                                                         *)
(* JavaScript objects are identities, not values: a descriptor's           *)
(* `properties` is a reference to an object, so the model keeps a heap of  *)
(* properties objects and stores addresses.  A class reads its static      *)
(* SurrealdbSchema through the prototype chain, so a class without an own  *)
(* property sees (and writes through to) its parent's descriptor.          *)
(***************************************************************************)
EXTENDS Naturals, Sequences, FiniteSets, TLC

VARIABLES own, heap, log, out, rendered

vars == <<own, heap, log, out, rendered>>

(***************************************************************************)
(* Bounds of the model.                                                    *)
(***************************************************************************)
\* Number of decorator applications (Field / Table calls) in one run.
MaxCalls == 3

(***************************************************************************)
(* Classes: an inheritance chain G <- P <- C (C extends P extends G).      *)
(* G's prototype is TableSchema / Function.prototype, whose                *)
(* SurrealdbSchema is never assigned: "none" stands for it.                *)
(***************************************************************************)
Classes == {"G", "P", "C"}

ParentOf == [G |-> "none", P |-> "G", C |-> "P"]

RECURSIVE AncestorsOf(_)
AncestorsOf(c) ==
  IF ParentOf[c] = "none" THEN {} ELSE {ParentOf[c]} \cup AncestorsOf(ParentOf[c])

(***************************************************************************)
(* Values.  "" stands for an absent (undefined) string member; FALSE for   *)
(* an absent boolean; address 0 for an absent `properties` member.         *)
(* `typed` is <<"none", "">>, <<"str", s>> or <<"ref", class>>.            *)
(* A property key and a field path are sequences of one-character strings *)
(* so that the renderer's character replacement can be modelled.           *)
(***************************************************************************)
NoTyped == <<"none", "">>

NoCfg ==
  [type |-> "", typed |-> NoTyped, primary |-> FALSE, indexed |-> FALSE,
   unique |-> FALSE, optional |-> FALSE, default |-> "", value |-> "",
   assertion |-> "", properties |-> 0]

\* The composite kinds tested at index.ts 148-153, 204-209 and 250-255.
IsComposite(type) == type \in {"option", "set", "array", "record", "object"}

\* A class's own static SurrealdbSchema property: "absent" (no own property,
\* reads fall through to the parent), "undef" (the class body declares
\* `static SurrealdbSchema` and the build defines class fields: an own
\* property holding undefined) or "set" (an own descriptor object).
NoSchema(st) ==
  [st |-> st, tables |-> <<>>, schemaMode |-> "undefined", indexes |-> <<>>,
   properties |-> 0]

\* index.ts 114-117: the descriptor literal { tables: [], properties: {} }.
NewSchema(addr) ==
  [st |-> "set", tables |-> <<>>, schemaMode |-> "undefined", indexes |-> <<>>,
   properties |-> addr]

(***************************************************************************)
(* Property objects: insertion-ordered maps, as sequences of entries.      *)
(***************************************************************************)
Keys(obj) == {obj[i].key : i \in 1..Len(obj)}

HasKey(obj, key) == \E i \in 1..Len(obj) : obj[i].key = key

Get(obj, key) == obj[CHOOSE i \in 1..Len(obj) : obj[i].key = key].cfg

\* obj[key] = cfg: an existing key keeps its position, a new key is appended.
Put(obj, key, cfg) ==
  IF HasKey(obj, key)
  THEN [i \in 1..Len(obj) |->
          IF obj[i].key = key THEN [key |-> key, cfg |-> cfg] ELSE obj[i]]
  ELSE Append(obj, [key |-> key, cfg |-> cfg])

RECURSIVE PutAll(_, _)
PutAll(obj, entries) ==
  IF entries = <<>> THEN obj
  ELSE PutAll(Put(obj, Head(entries).key, Head(entries).cfg), Tail(entries))

\* The object literal { ...a, ...b } (index.ts 125-128): a fresh object.
Spread(a, b) == PutAll(a, b)

(***************************************************************************)
(* The registry.  r is the pair [own, heap].                               *)
(***************************************************************************)
Reg == [own |-> own, heap |-> heap]

\* The class on which the property read `c.SurrealdbSchema` finds an own
\* property, walking the prototype chain.
RECURSIVE Holder(_, _)
Holder(r, c) ==
  IF c = "none" THEN "none"
  ELSE IF r.own[c].st # "absent" THEN c
  ELSE Holder(r, ParentOf[c])

\* The class whose descriptor `c.SurrealdbSchema` evaluates to, or "none"
\* when the expression is undefined.
SchemaHolder(r, c) ==
  LET h == Holder(r, c)
  IN IF h = "none" THEN "none"
     ELSE IF r.own[h].st = "set" THEN h ELSE "none"

\* The properties object of `c.SurrealdbSchema` (c.SurrealdbSchema defined).
PropsOf(r, c) == r.heap[r.own[SchemaHolder(r, c)].properties]

\* index.ts 112-130.  The branch at 118-120 (a descriptor without
\* properties) is never taken: every descriptor is created with properties.
initializeSchema(r, c) ==
  LET r1 == IF SchemaHolder(r, c) = "none"
            THEN [own |-> [r.own EXCEPT ![c] = NewSchema(Len(r.heap) + 1)],
                  heap |-> Append(r.heap, <<>>)]
            ELSE r
      h == SchemaHolder(r1, c)
      p == SchemaHolder(r1, ParentOf[c])
  IN IF p # "none"
     THEN [own |-> [r1.own EXCEPT ![h].properties = Len(r1.heap) + 1],
           heap |-> Append(r1.heap, Spread(PropsOf(r1, p), PropsOf(r1, h)))]
     ELSE r1

\* index.ts 140-146: a bare type tag becomes { type: tag }, a config object
\* is copied.
Normalize(args) ==
  IF args.bare THEN [NoCfg EXCEPT !.type = args.cfg.type] ELSE args.cfg

\* index.ts 148-160 reads typed.SurrealdbSchema.properties: a TypeError when
\* the referenced class has no descriptor.
FieldThrows(r, args) ==
  LET f == Normalize(args)
  IN /\ IsComposite(f.type)
     /\ f.typed[1] = "ref"
     /\ SchemaHolder(r, f.typed[2]) = "none"

\* index.ts 148-160: the field config as stored, `properties` being the very
\* object the referenced descriptor holds at this moment (no copy is made).
FieldConfigOf(r, args) ==
  LET f == Normalize(args)
  IN IF IsComposite(f.type) /\ f.typed[1] = "ref"
     THEN [f EXCEPT !.properties = r.own[SchemaHolder(r, f.typed[2])].properties]
     ELSE f

\* index.ts 134-166, the decorator body for target.constructor = c.
Field(r, c, key, args) ==
  LET f == FieldConfigOf(r, args)
      r1 == initializeSchema(r, c)
      a == r1.own[SchemaHolder(r1, c)].properties
  IN [own |-> r1.own,
      heap |-> [r1.heap EXCEPT ![a] = Put(r1.heap[a], key, f)]]

\* index.ts 174-189.  tcfg.form is "string" (a bare name), "list" or "config";
\* the bare string and the list leave `indexes` as it is.  An absent
\* config.indexes (undefined) and an empty list are both <<>>.
Table(r, c, tcfg) ==
  LET r1 == initializeSchema(r, c)
      h == SchemaHolder(r1, c)
  IN [own |-> [r1.own EXCEPT ![h] =
        IF tcfg.form = "string"
        THEN [@ EXCEPT !.tables = <<<<"str", tcfg.name, "">>>>,
                       !.schemaMode = "SCHEMALESS"]
        ELSE IF tcfg.form = "list"
        THEN [@ EXCEPT !.tables = tcfg.tables, !.schemaMode = "SCHEMALESS"]
        ELSE [@ EXCEPT !.tables = tcfg.tables,
                       !.schemaMode = IF tcfg.schemaMode = "" THEN "SCHEMALESS"
                                      ELSE tcfg.schemaMode,
                       !.indexes = tcfg.indexes]],
      heap |-> r1.heap]

(***************************************************************************)
(* The renderer, generateSurqlSchema (index.ts 191-342).  Every operator   *)
(* returns the strings it pushes onto schemaParts, in order.  hp is the    *)
(* heap through which nested `properties` references are read.            *)
(***************************************************************************)
RECURSIVE Str(_)
Str(chars) == IF chars = <<>> THEN "" ELSE Head(chars) \o Str(Tail(chars))

\* Array.prototype.join on strings.
RECURSIVE Join(_, _)
Join(parts, sep) ==
  IF parts = <<>> THEN ""
  ELSE IF Len(parts) = 1 THEN parts[1]
  ELSE parts[1] \o sep \o Join(Tail(parts), sep)

\* index.ts 278: fieldName.replace(/[\*\.]/g, '_').
ReplaceStarDot(chars) ==
  [i \in 1..Len(chars) |-> IF chars[i] \in {"*", "."} THEN "_" ELSE chars[i]]

\* A table entry is <<"str", name, "">> (a bare string) or
\* <<"gen", name, generic>>; index.ts 306-312.
TableNameOf(table) == table[2]

\* <<FALSE, "">> is an undefined tableGeneric.
TableGenericOf(table) == IF table[1] = "str" THEN <<FALSE, "">> ELSE <<TRUE, table[3]>>

\* tableGeneric ?? 'any' (index.ts 214, 228).
GenericOrAny(tableGeneric) == IF tableGeneric[1] THEN tableGeneric[2] ELSE "any"

\* Variant of FieldType: a primary field keeps its declared scalar type.
FieldTypePrimaryIgnored(tableName, tableGeneric, cfg) ==
  IF cfg.type = "$$generic" THEN GenericOrAny(tableGeneric)
  ELSE IF cfg.type = "" THEN "any" ELSE cfg.type

\* Variant of FieldType: the table's generic parameter is never substituted.
FieldTypeNoGeneric(tableName, tableGeneric, cfg) ==
  IF cfg.primary THEN "record<" \o tableName \o ">"
  ELSE IF IsComposite(cfg.type)
  THEN IF cfg.typed[1] = "str" /\ cfg.typed[2] # ""
       THEN cfg.type \o "<" \o (IF cfg.typed[2] = "$$generic" THEN "any" ELSE cfg.typed[2]) \o ">"
       ELSE IF cfg.typed[1] = "ref"
       THEN IF cfg.type = "object" THEN cfg.type ELSE cfg.type \o "<object>"
       ELSE cfg.type
  ELSE IF cfg.type = "$$generic" THEN "any"
  ELSE IF cfg.type = "" THEN "any" ELSE cfg.type

\* index.ts 201-229: the local `fieldtype`.
FieldType(tableName, tableGeneric, cfg) ==
  IF cfg.primary THEN "record<" \o tableName \o ">"
  ELSE IF IsComposite(cfg.type)
  THEN IF cfg.typed[1] = "str" /\ cfg.typed[2] # ""
       THEN cfg.type \o "<"
            \o (IF cfg.typed[2] = "$$generic" THEN GenericOrAny(tableGeneric)
                ELSE cfg.typed[2])
            \o ">"
       ELSE IF cfg.typed[1] = "ref"
       THEN IF cfg.type = "object" THEN cfg.type ELSE cfg.type \o "<object>"
       ELSE cfg.type
  ELSE IF cfg.type = "$$generic" THEN GenericOrAny(tableGeneric)
  ELSE IF cfg.type = "" THEN "any" ELSE cfg.type

\* index.ts 200, 231-247: the field statement pushed at line 247.
FieldStatement(tableName, tableGeneric, fieldName, cfg) ==
  LET fieldtype == FieldType(tableName, tableGeneric, cfg)
      fieldDefinition ==
        <<"DEFINE FIELD " \o Str(fieldName) \o " ON " \o tableName>>
        \o (IF cfg.optional THEN <<"TYPE option<" \o fieldtype \o ">">>
            ELSE <<"TYPE " \o fieldtype>>)
        \o (IF cfg.default # "" THEN <<"DEFAULT " \o cfg.default>> ELSE <<>>)
        \o (IF cfg.value # "" THEN <<"VALUE " \o cfg.value>> ELSE <<>>)
        \o (IF cfg.assertion # "" THEN <<"ASSERT " \o cfg.assertion>> ELSE <<>>)
  IN Join(fieldDefinition, " ") \o ";"

\* Variant of addIndexDefinition: only `unique` gives the UNIQUE suffix.
addIndexDefinitionUniqueOnly(tableName, fieldName, cfg) ==
  IF cfg.primary \/ cfg.indexed \/ cfg.unique
  THEN <<Join(<<"DEFINE INDEX idx_" \o tableName \o "_" \o Str(ReplaceStarDot(fieldName))
                 \o " ON " \o tableName \o " FIELDS " \o Str(fieldName)>>
              \o (IF cfg.unique THEN <<"UNIQUE">> ELSE <<>>), " ") \o ";">>
  ELSE <<>>

\* index.ts 271-285.
addIndexDefinition(tableName, fieldName, cfg) ==
  IF cfg.primary \/ cfg.indexed \/ cfg.unique
  THEN LET indexDefinition ==
             <<"DEFINE INDEX idx_" \o tableName \o "_" \o Str(ReplaceStarDot(fieldName))
               \o " ON " \o tableName \o " FIELDS " \o Str(fieldName)>>
             \o (IF cfg.primary \/ cfg.unique THEN <<"UNIQUE">> ELSE <<>>)
       IN <<Join(indexDefinition, " ") \o ";">>
  ELSE <<>>

\* Variant of NestedPath: set and array children get the plain dotted path.
NestedPathNoStar(type, fieldName, nestedFieldName) ==
  fieldName \o <<".">> \o nestedFieldName

\* index.ts 261-264: the local `parentFieldName`.
NestedPath(type, fieldName, nestedFieldName) ==
  IF type \in {"set", "array"}
  THEN fieldName \o <<".", "*", ".">> \o nestedFieldName
  ELSE fieldName \o <<".">> \o nestedFieldName

\* index.ts 194-269, and the loop over Object.entries at 258-267.
RECURSIVE addFieldDefinition(_, _, _, _, _)
RECURSIVE NestedDefinitions(_, _, _, _, _, _)
NestedDefinitions(hp, tableName, tableGeneric, fieldName, type, entries) ==
  IF entries = <<>> THEN <<>>
  ELSE LET parentFieldName == NestedPath(type, fieldName, Head(entries).key)
       IN addFieldDefinition(hp, tableName, tableGeneric, parentFieldName, Head(entries).cfg)
          \o addIndexDefinition(tableName, parentFieldName, Head(entries).cfg)
          \o NestedDefinitions(hp, tableName, tableGeneric, fieldName, type, Tail(entries))

addFieldDefinition(hp, tableName, tableGeneric, fieldName, cfg) ==
  <<FieldStatement(tableName, tableGeneric, fieldName, cfg)>>
  \o (IF IsComposite(cfg.type) /\ cfg.properties # 0
      THEN NestedDefinitions(hp, tableName, tableGeneric, fieldName, cfg.type,
                             hp[cfg.properties])
      ELSE <<>>)

\* index.ts 287-297.
RECURSIVE addTableIndexes(_, _)
addTableIndexes(tableName, indexes) ==
  IF indexes = <<>> THEN <<>>
  ELSE LET index == Head(indexes)
           indexDefinition ==
             <<"DEFINE INDEX "
               \o (IF index.name = ""
                   THEN "idx_" \o tableName \o "_" \o Join(index.fields, "_")
                   ELSE index.name)
               \o " ON " \o tableName \o " FIELDS " \o Join(index.fields, ", ")>>
             \o (IF index.unique THEN <<"UNIQUE">> ELSE <<>>)
       IN <<Join(indexDefinition, " ") \o ";">> \o addTableIndexes(tableName, Tail(indexes))

\* Variant of PropertyDefinitions: a field's implicit index is pushed before
\* the field's own definition.
RECURSIVE PropertyDefinitionsIndexFirst(_, _, _, _)
PropertyDefinitionsIndexFirst(hp, tableName, tableGeneric, entries) ==
  IF entries = <<>> THEN <<>>
  ELSE addIndexDefinition(tableName, Head(entries).key, Head(entries).cfg)
       \o addFieldDefinition(hp, tableName, tableGeneric, Head(entries).key, Head(entries).cfg)
       \o PropertyDefinitionsIndexFirst(hp, tableName, tableGeneric, Tail(entries))

\* index.ts 325-331: the loop over Object.entries(properties).
RECURSIVE PropertyDefinitions(_, _, _, _)
PropertyDefinitions(hp, tableName, tableGeneric, entries) ==
  IF entries = <<>> THEN <<>>
  ELSE addFieldDefinition(hp, tableName, tableGeneric, Head(entries).key, Head(entries).cfg)
       \o addIndexDefinition(tableName, Head(entries).key, Head(entries).cfg)
       \o PropertyDefinitions(hp, tableName, tableGeneric, Tail(entries))

\* index.ts 303-337: the body of the loop over one table entry.
TableBlock(hp, schema, table, comments) ==
  LET tableName == TableNameOf(table)
      tableGeneric == TableGenericOf(table)
  IN (IF comments
      THEN <<"-- ------------------------------", "-- TABLE: " \o tableName,
             "-- ------------------------------\n">>
      ELSE <<>>)
     \o <<"DEFINE TABLE " \o tableName \o " " \o schema.schemaMode \o ";">>
     \o (IF comments THEN <<"">> ELSE <<>>)
     \o PropertyDefinitions(hp, tableName, tableGeneric, hp[schema.properties])
     \o addTableIndexes(tableName, schema.indexes)
     \o <<"\n">>

\* index.ts 302: the loop over the tables of one entity.
RECURSIVE TableBlocks(_, _, _, _)
TableBlocks(hp, schema, tables, comments) ==
  IF tables = <<>> THEN <<>>
  ELSE TableBlock(hp, schema, Head(tables), comments)
       \o TableBlocks(hp, schema, Tail(tables), comments)

\* index.ts 299-339: schemaParts when the loop over entities ends.
RECURSIVE schemaParts(_, _, _)
schemaParts(r, entities, comments) ==
  IF entities = <<>> THEN <<>>
  ELSE LET schema == r.own[SchemaHolder(r, Head(entities))]
       IN TableBlocks(r.heap, schema, schema.tables, comments)
          \o schemaParts(r, Tail(entities), comments)

\* index.ts 191-342: the returned text and, with it, the parts it joins.
generateSurqlSchema(r, entities, comments) ==
  LET parts == schemaParts(r, entities, comments)
  IN [parts |-> parts, text |-> Join(parts, "\n")]

\* index.ts 300 destructures entity.SurrealdbSchema: a TypeError when it is
\* undefined.
RenderThrows(r, entities) ==
  \E i \in 1..Len(entities) : SchemaHolder(r, entities[i]) = "none"

(***************************************************************************)
(* Inputs of the registry specification.                                   *)
(***************************************************************************)
FieldKeys == {<<"a">>, <<"b">>}

Bare(type) == [bare |-> TRUE, cfg |-> [NoCfg EXCEPT !.type = type]]

Config(cfg) == [bare |-> FALSE, cfg |-> cfg]

\* Typed references point to strict ancestors, which keeps the nested
\* property objects acyclic (the renderer recurses through them).
FieldArgs(c) ==
  {Bare("string"), Config([NoCfg EXCEPT !.type = "int", !.indexed = TRUE])}
  \cup {Config([NoCfg EXCEPT !.type = "object", !.typed = <<"ref", d>>]) :
          d \in AncestorsOf(c)}

Entry(name) == <<"str", name, "">>

Generic(name, generic) == <<"gen", name, generic>>

IdxName == [name |-> "idx_name", fields |-> <<"a">>, unique |-> TRUE]

TableArgs ==
  {[form |-> "string", name |-> "t", tables |-> <<>>, schemaMode |-> "",
    indexes |-> <<>>],
   [form |-> "list", name |-> "", tables |-> <<Generic("t1", "number"), Entry("t2")>>,
    schemaMode |-> "", indexes |-> <<>>],
   [form |-> "config", name |-> "", tables |-> <<Generic("u", "string")>>,
    schemaMode |-> "SCHEMAFULL", indexes |-> <<IdxName>>],
   [form |-> "config", name |-> "", tables |-> <<Entry("v")>>, schemaMode |-> "",
    indexes |-> <<>>]}

NoTableArg ==
  [form |-> "", name |-> "", tables |-> <<>>, schemaMode |-> "", indexes |-> <<>>]

FieldCall(c, key, args, f) ==
  [op |-> "Field", c |-> c, key |-> key, args |-> args, cfg |-> f,
   tcfg |-> NoTableArg]

TableCall(c, tcfg) ==
  [op |-> "Table", c |-> c, key |-> <<>>, args |-> Bare(""), cfg |-> NoCfg,
   tcfg |-> tcfg]

(***************************************************************************)
(* Actions.  log records the decorator applications that completed.        *)
(***************************************************************************)
NoOutput == [parts |-> <<>>, text |-> ""]

NoRender == [entities |-> <<>>, comments |-> FALSE]

\* Whether each class body declares the static member as an own property.
Init ==
  /\ own \in [Classes -> {NoSchema("absent"), NoSchema("undef")}]
  /\ heap = <<>>
  /\ log = <<>>
  /\ out = NoOutput
  /\ rendered = NoRender

\* A Field decorator applied to property `key` of class c.  out is the value
\* returned by the latest call when that call was generateSurqlSchema.
RegisterField(c, key, args) ==
  /\ Len(log) < MaxCalls
  /\ ~FieldThrows(Reg, args)
  /\ LET r == Field(Reg, c, key, args)
     IN /\ own' = r.own
        /\ heap' = r.heap
        /\ log' = Append(log, FieldCall(c, key, args, FieldConfigOf(Reg, args)))
  /\ out' = NoOutput
  /\ rendered' = NoRender

\* A Table decorator applied to class c.
RegisterTable(c, tcfg) ==
  /\ Len(log) < MaxCalls
  /\ LET r == Table(Reg, c, tcfg)
     IN /\ own' = r.own
        /\ heap' = r.heap
        /\ log' = Append(log, TableCall(c, tcfg))
  /\ out' = NoOutput
  /\ rendered' = NoRender

\* generateSurqlSchema(entities, comments).
Render(entities, comments) ==
  /\ ~RenderThrows(Reg, entities)
  /\ out' = generateSurqlSchema(Reg, entities, comments)
  /\ rendered' = [entities |-> entities, comments |-> comments]
  /\ UNCHANGED <<own, heap, log>>

DoRegisterField == \E c \in Classes, key \in FieldKeys :
                     \E args \in FieldArgs(c) : RegisterField(c, key, args)

DoRegisterTable == \E c \in Classes, tcfg \in TableArgs : RegisterTable(c, tcfg)

\* The registry specification: decorator applications in every order.
Next == DoRegisterField \/ DoRegisterTable

Spec == Init /\ [][Next]_vars

(***************************************************************************)
(* The renderer specification.  generateSurqlSchema is a pure function of  *)
(* the registered descriptors; its inputs are the descriptors that the     *)
(* decorators of three class declarations leave behind, G, P and C in      *)
(* declaration order, each class's Field decorators before its Table       *)
(* decorator (the order in which TypeScript applies them).                 *)
(***************************************************************************)
\* Field configs of G: they become nested fields of P's and C's composites.
LeafArgs ==
  {Bare("string"),
   Config([NoCfg EXCEPT !.type = "$$generic"]),
   Config([NoCfg EXCEPT !.type = "string", !.primary = TRUE]),
   Config([NoCfg EXCEPT !.type = "int", !.indexed = TRUE, !.default = "0"]),
   Config([NoCfg EXCEPT !.type = "string", !.unique = TRUE, !.optional = TRUE,
                        !.assertion = "$value != NONE"]),
   Config([NoCfg EXCEPT !.type = "record", !.typed = <<"str", "$$generic">>,
                        !.indexed = TRUE]),
   Config([NoCfg EXCEPT !.type = "array", !.typed = <<"str", "string">>,
                        !.unique = TRUE, !.indexed = TRUE]),
   Config([NoCfg EXCEPT !.type = "object", !.typed = <<"str", "string">>]),
   Config([NoCfg EXCEPT !.type = "set"]),
   Config([NoCfg EXCEPT !.primary = TRUE, !.optional = TRUE, !.value = "rand::ulid()"]),
   Config([NoCfg EXCEPT !.indexed = TRUE])}

\* Field configs of P: composites over G's descriptor, or a scalar.
MidArgs ==
  {Bare("datetime"),
   Config([NoCfg EXCEPT !.type = "object", !.typed = <<"ref", "G">>, !.indexed = TRUE]),
   Config([NoCfg EXCEPT !.type = "array", !.typed = <<"ref", "G">>]),
   Config([NoCfg EXCEPT !.type = "set", !.typed = <<"ref", "G">>, !.unique = TRUE]),
   Config([NoCfg EXCEPT !.type = "record", !.typed = <<"ref", "G">>, !.optional = TRUE]),
   Config([NoCfg EXCEPT !.type = "option", !.typed = <<"ref", "G">>, !.primary = TRUE])}

\* Fields of C: composites over P's descriptor, or a scalar that may
\* redeclare the inherited key a.
TopFields ==
  {[key |-> <<"a">>, args |-> Config([NoCfg EXCEPT !.type = "$$generic", !.unique = TRUE])],
   [key |-> <<"c">>, args |-> Config([NoCfg EXCEPT !.type = "$$generic"])],
   [key |-> <<"c">>, args |-> Config([NoCfg EXCEPT !.type = "object", !.typed = <<"ref", "P">>])],
   [key |-> <<"c">>, args |-> Config([NoCfg EXCEPT !.type = "array", !.typed = <<"ref", "P">>,
                                                 !.indexed = TRUE])],
   [key |-> <<"c">>, args |-> Config([NoCfg EXCEPT !.type = "option", !.typed = <<"ref", "P">>])]}

GTable == [form |-> "string", name |-> "g", tables |-> <<>>, schemaMode |-> "",
           indexes |-> <<>>]

InitRender ==
  \E declared \in [Classes -> {NoSchema("absent"), NoSchema("undef")}] :
    \E x \in LeafArgs, y \in MidArgs, z \in TopFields, t \in TableArgs :
      LET r0 == [own |-> declared, heap |-> <<>>]
          r1 == Field(r0, "G", <<"a">>, x)
          r2 == Table(r1, "G", GTable)
          r3 == Field(r2, "P", <<"b">>, y)
          r4 == Field(r3, "C", z.key, z.args)
          r5 == Table(r4, "C", t)
      IN /\ own = r5.own
         /\ heap = r5.heap
         /\ log = <<FieldCall("G", <<"a">>, x, FieldConfigOf(r0, x)),
                    TableCall("G", GTable),
                    FieldCall("P", <<"b">>, y, FieldConfigOf(r2, y)),
                    FieldCall("C", z.key, z.args, FieldConfigOf(r3, z.args)),
                    TableCall("C", t)>>
         /\ out = NoOutput
         /\ rendered = NoRender

RenderArgs ==
  {[entities |-> <<"C">>, comments |-> FALSE],
   [entities |-> <<"C">>, comments |-> TRUE],
   [entities |-> <<"P">>, comments |-> FALSE],
   [entities |-> <<"G", "C">>, comments |-> FALSE]}

DoRender == \E a \in RenderArgs : Render(a.entities, a.comments)

NextRender == DoRender

SpecRender == InitRender /\ [][NextRender]_vars

(***************************************************************************)
(* What the log says: the calls made on a class, the keys it registered    *)
(* and the config its latest Field call stored under a key.                *)
(***************************************************************************)
CallsOn(c) == {i \in 1..Len(log) : log[i].c = c}

FieldCallsOn(c) == {i \in CallsOn(c) : log[i].op = "Field"}

RegisteredKeys(c) == {log[i].key : i \in FieldCallsOn(c)}

LastConfig(c, key) ==
  LET is == {i \in FieldCallsOn(c) : log[i].key = key}
  IN log[CHOOSE i \in is : \A j \in is : j <= i].cfg

\* Every call on p ran before the first call on c, and c has been called.
RanBefore(p, c) ==
  /\ CallsOn(c) # {}
  /\ \A i \in CallsOn(p), j \in CallsOn(c) : i < j

(***************************************************************************)
(* C2.  Inheritance merge: when every registration on parent P has run     *)
(* before the first registration on child C, C's properties contain every  *)
(* field registered on P and every field registered on C, and hold C's     *)
(* configuration for the fields C registered.                              *)
(***************************************************************************)
C2_InheritanceMerge ==
  \A c \in Classes :
    (ParentOf[c] # "none" /\ RanBefore(ParentOf[c], c)) =>
      /\ SchemaHolder(Reg, c) # "none"
      /\ \A k \in RegisteredKeys(ParentOf[c]) \cup RegisteredKeys(c) :
           HasKey(PropsOf(Reg, c), k)
      /\ \A k \in RegisteredKeys(c) : Get(PropsOf(Reg, c), k) = LastConfig(c, k)

(***************************************************************************)
(* C3.  Snapshot of nested schemas: a Field call on class R leaves, for    *)
(* every composite field f of another descriptor whose typed references R, *)
(* the nested properties of f and the text rendered for f's owner exactly  *)
(* as they were before the call.                                           *)
(***************************************************************************)
RegPrime == [own |-> own', heap |-> heap']

NestedOf(r, o, key) == r.heap[Get(PropsOf(r, o), key).properties]

\* One step of the claim: what a Field call on R must leave alone.
NestedSnapshotStep ==
  (Len(log') = Len(log) + 1 /\ log'[Len(log')].op = "Field") =>
    LET R == log'[Len(log')].c
    IN \A o \in Classes :
         (/\ SchemaHolder(Reg, o) # "none"
          /\ SchemaHolder(Reg, o) # SchemaHolder(Reg, R)
          /\ SchemaHolder(RegPrime, o) # SchemaHolder(RegPrime, R)) =>
           \A i \in 1..Len(PropsOf(Reg, o)) :
             LET e == PropsOf(Reg, o)[i]
             IN (IsComposite(e.cfg.type) /\ e.cfg.typed = <<"ref", R>>) =>
                  /\ NestedOf(RegPrime, o, e.key) = NestedOf(Reg, o, e.key)
                  /\ generateSurqlSchema(RegPrime, <<o>>, FALSE)
                       = generateSurqlSchema(Reg, <<o>>, FALSE)

C3_NestedSnapshot == [][NestedSnapshotStep]_vars

(***************************************************************************)
(* C8.  registerTable postcondition: right after Table(D, config), D's     *)
(* tables are config's table sequence (a bare string as a one-element      *)
(* sequence), D's schemaMode is config's or SCHEMALESS, and D's indexes    *)
(* are config's, or empty when config gives none.                          *)
(***************************************************************************)
C8_TablePostcondition ==
  (Len(log) > 0 /\ log[Len(log)].op = "Table") =>
    LET call == log[Len(log)]
        d == Reg.own[SchemaHolder(Reg, call.c)]
    IN /\ d.tables = IF call.tcfg.form = "string" THEN <<Entry(call.tcfg.name)>>
                     ELSE call.tcfg.tables
       /\ d.schemaMode = IF call.tcfg.form = "config" /\ call.tcfg.schemaMode # ""
                         THEN call.tcfg.schemaMode ELSE "SCHEMALESS"
       /\ d.indexes = IF call.tcfg.form = "config" THEN call.tcfg.indexes ELSE <<>>

(***************************************************************************)
(* C9.  Order independence of the merge: in whatever order the Field and   *)
(* Table calls of the chain were applied, every class that was called      *)
(* holds every field registered on each of its ancestors and its own       *)
(* fields, with its own configuration for the fields it registered.        *)
(***************************************************************************)
C9_OrderIndependent ==
  \A c \in Classes :
    CallsOn(c) # {} =>
      /\ \A a \in AncestorsOf(c) : \A k \in RegisteredKeys(a) :
           HasKey(PropsOf(Reg, c), k)
      /\ \A k \in RegisteredKeys(c) :
           /\ HasKey(PropsOf(Reg, c), k)
           /\ Get(PropsOf(Reg, c), k) = LastConfig(c, k)

(***************************************************************************)
(* The rendered output as the specification describes it.  A node is a     *)
(* field at some depth: its path as characters, its path with every '.'    *)
(* and '*' written as '_', and its config.  Statements are spelled here    *)
(* from the output grammar, not with the renderer's operators.             *)
(***************************************************************************)
Fresh == rendered # NoRender

Parts == {out.parts[i] : i \in 1..Len(out.parts)}

\* The descriptor a rendered entity stands for.
DescriptorOf(e) == own[SchemaHolder(Reg, e)]

\* The (entity, table entry) pairs of the latest render.
RenderedTables ==
  UNION {{<<rendered.entities[i], DescriptorOf(rendered.entities[i]).tables[j]>> :
            j \in 1..Len(DescriptorOf(rendered.entities[i]).tables)} :
         i \in 1..Len(rendered.entities)}

TopNode(entry) == [cpath |-> entry.key, ipath |-> Str(entry.key), cfg |-> entry.cfg]

StarKind(kind) == kind \in {"set", "array"}

ChildNode(node, entry) ==
  [cpath |-> node.cpath \o (IF StarKind(node.cfg.type) THEN <<".", "*", ".">> ELSE <<".">>)
             \o entry.key,
   ipath |-> node.ipath \o (IF StarKind(node.cfg.type) THEN "___" ELSE "_")
             \o Str(entry.key),
   cfg |-> entry.cfg]

HasNested(node) == IsComposite(node.cfg.type) /\ node.cfg.properties # 0

ChildrenOf(node) ==
  IF HasNested(node)
  THEN [i \in 1..Len(heap[node.cfg.properties]) |->
          ChildNode(node, heap[node.cfg.properties][i])]
  ELSE <<>>

TopNodes(e) ==
  LET obj == heap[DescriptorOf(e).properties]
  IN [i \in 1..Len(obj) |-> TopNode(obj[i])]

\* Every field of the nodes' subtrees, at any depth.
RECURSIVE NodesUnder(_)
NodesUnder(nodes) ==
  IF nodes = <<>> THEN {}
  ELSE {Head(nodes)} \cup NodesUnder(ChildrenOf(Head(nodes))) \cup NodesUnder(Tail(nodes))

AllNodes(e) == NodesUnder(TopNodes(e))

Flagged(cfg) == cfg.primary \/ cfg.indexed \/ cfg.unique

SpecIndexStmt(tn, node, isUnique) ==
  "DEFINE INDEX idx_" \o tn \o "_" \o node.ipath \o " ON " \o tn \o " FIELDS "
  \o Str(node.cpath) \o (IF isUnique THEN " UNIQUE;" ELSE ";")

SpecFieldStmt(tn, node, typeSpec) ==
  "DEFINE FIELD " \o Str(node.cpath) \o " ON " \o tn \o " TYPE " \o typeSpec
  \o (IF node.cfg.default # "" THEN " DEFAULT " \o node.cfg.default ELSE "")
  \o (IF node.cfg.value # "" THEN " VALUE " \o node.cfg.value ELSE "")
  \o (IF node.cfg.assertion # "" THEN " ASSERT " \o node.cfg.assertion ELSE "")
  \o ";"

Wrapped(cfg, typeSpec) == IF cfg.optional THEN "option<" \o typeSpec \o ">" ELSE typeSpec

(***************************************************************************)
(* C1 as stated.  Primary-key override: every field with primary = true is *)
(* rendered with TYPE record<tableName>, whatever its type and typed, and  *)
(* gets an implicit index statement with the UNIQUE suffix.                *)
(***************************************************************************)
C1_PrimaryAsStated ==
  Fresh =>
    \A et \in RenderedTables : \A node \in AllNodes(et[1]) :
      node.cfg.primary =>
        /\ SpecFieldStmt(et[2][2], node, "record<" \o et[2][2] \o ">") \in Parts
        /\ SpecIndexStmt(et[2][2], node, TRUE) \in Parts

(***************************************************************************)
(* C1 as amended.  Every field with primary = true is rendered with the    *)
(* type record<tableName>, whatever its type and typed, written            *)
(* TYPE option<record<tableName>> when the field is also optional, and     *)
(* gets an implicit index statement with the UNIQUE suffix.                *)
(***************************************************************************)
C1_PrimaryOverride ==
  Fresh =>
    \A et \in RenderedTables : \A node \in AllNodes(et[1]) :
      node.cfg.primary =>
        /\ SpecFieldStmt(et[2][2], node,
                         Wrapped(node.cfg, "record<" \o et[2][2] \o ">")) \in Parts
        /\ SpecIndexStmt(et[2][2], node, TRUE) \in Parts

\* A primary field declared with a composite type and a typed reference, and
\* one that is also optional, were rendered.
C1_Witness ==
  /\ Fresh
  /\ \E et \in RenderedTables : \E m, n \in AllNodes(et[1]) :
       /\ m.cfg.primary /\ m.cfg.typed[1] = "ref"
       /\ SpecFieldStmt(et[2][2], m, "record<" \o et[2][2] \o ">") \in Parts
       /\ n.cfg.primary /\ n.cfg.optional
       /\ SpecIndexStmt(et[2][2], n, TRUE) \in Parts

GenericOf(table) == IF table[1] = "gen" THEN table[3] ELSE "any"

\* The statement of a node, its type being the type of the node's own config.
NodeStmt(table, node) ==
  SpecFieldStmt(table[2], node,
                Wrapped(node.cfg, FieldType(table[2], TableGenericOf(table), node.cfg)))

NodeIndex(table, node) ==
  IF Flagged(node.cfg)
  THEN <<SpecIndexStmt(table[2], node, node.cfg.primary \/ node.cfg.unique)>>
  ELSE <<>>

RECURSIVE ChildBlocks(_, _)
ChildBlocks(table, nodes) ==
  IF nodes = <<>> THEN <<>>
  ELSE <<NodeStmt(table, Head(nodes))>>
       \o ChildBlocks(table, ChildrenOf(Head(nodes)))
       \o NodeIndex(table, Head(nodes))
       \o ChildBlocks(table, Tail(nodes))

RECURSIVE IndexFirstBlocks(_, _)
IndexFirstBlocks(table, nodes) ==
  IF nodes = <<>> THEN <<>>
  ELSE <<NodeStmt(table, Head(nodes))>>
       \o NodeIndex(table, Head(nodes))
       \o IndexFirstBlocks(table, ChildrenOf(Head(nodes)))
       \o IndexFirstBlocks(table, Tail(nodes))

\* seq occurs in out.parts as a contiguous run.
Occurs(seq) ==
  \E i \in 0..(Len(out.parts) - Len(seq)) :
    \A j \in 1..Len(seq) : out.parts[i + j] = seq[j]

(***************************************************************************)
(* C4.  Composite nesting: a composite field that carries nested           *)
(* properties is rendered as its own field statement followed, for each    *)
(* nested field in insertion order and recursively, by that field's        *)
(* statement and its implicit index if flagged; the child path is          *)
(* <path>.<child> under object, record and option and <path>.*.<child>     *)
(* under set and array, and a child statement carries the type of the      *)
(* child's own config.                                                     *)
(***************************************************************************)
C4_CompositeNesting ==
  Fresh =>
    \A et \in RenderedTables : \A node \in AllNodes(et[1]) :
      HasNested(node) =>
        Occurs(<<NodeStmt(et[2], node)>> \o ChildBlocks(et[2], ChildrenOf(node)))

\* An array or set field whose nested fields include a composite with
\* nested fields of its own was rendered.
C4_Witness ==
  /\ Fresh
  /\ \E et \in RenderedTables : \E node \in AllNodes(et[1]) :
       /\ StarKind(node.cfg.type)
       /\ \E i \in 1..Len(ChildrenOf(node)) :
            /\ ~StarKind(ChildrenOf(node)[i].cfg.type)
            /\ ChildrenOf(ChildrenOf(node)[i]) # <<>>
       /\ Occurs(<<NodeStmt(et[2], node)>> \o ChildBlocks(et[2], ChildrenOf(node)))

(***************************************************************************)
(* C5.  Generic substitution per table entry: in the block of each table   *)
(* entry a non-primary field whose type is $$generic, or whose composite   *)
(* typed is $$generic, is rendered with that entry's generic in its place, *)
(* with any when the entry is a bare name, and with no other entry's       *)
(* generic.                                                                *)
(***************************************************************************)
GenericsOf(e) ==
  {GenericOf(DescriptorOf(e).tables[j]) : j \in 1..Len(DescriptorOf(e).tables)}

\* The statement of a $$generic node with g in the marker's place.
GenericStmt(tn, node, g) ==
  SpecFieldStmt(tn, node,
                Wrapped(node.cfg, IF node.cfg.type = "$$generic" THEN g
                                  ELSE node.cfg.type \o "<" \o g \o ">"))

UsesGeneric(node) ==
  /\ ~node.cfg.primary
  /\ \/ node.cfg.type = "$$generic"
     \/ IsComposite(node.cfg.type) /\ node.cfg.typed = <<"str", "$$generic">>

CommentParts ==
  {"-- ------------------------------", "-- ------------------------------\n", ""}
  \cup {"-- TABLE: " \o et[2][2] : et \in RenderedTables}

Statements == SelectSeq(out.parts, LAMBDA x : x \notin CommentParts)

SpecTableIndexes(tn, indexes) ==
  [i \in 1..Len(indexes) |->
     "DEFINE INDEX "
     \o (IF indexes[i].name = "" THEN "idx_" \o tn \o "_" \o Join(indexes[i].fields, "_")
         ELSE indexes[i].name)
     \o " ON " \o tn \o " FIELDS " \o Join(indexes[i].fields, ", ")
     \o (IF indexes[i].unique THEN " UNIQUE;" ELSE ";")]

BlockOf(e, table, properties) ==
  <<"DEFINE TABLE " \o table[2] \o " " \o DescriptorOf(e).schemaMode \o ";">>
  \o properties
  \o SpecTableIndexes(table[2], DescriptorOf(e).indexes)
  \o <<"\n">>

RECURSIVE BlocksOf(_, _, _)
BlocksOf(e, tables, indexFirst) ==
  IF tables = <<>> THEN <<>>
  ELSE BlockOf(e, Head(tables),
               IF indexFirst THEN IndexFirstBlocks(Head(tables), TopNodes(e))
               ELSE ChildBlocks(Head(tables), TopNodes(e)))
       \o BlocksOf(e, Tail(tables), indexFirst)

RECURSIVE OutputOf(_, _)
OutputOf(entities, indexFirst) ==
  IF entities = <<>> THEN <<>>
  ELSE BlocksOf(Head(entities), DescriptorOf(Head(entities)).tables, indexFirst)
       \o OutputOf(Tail(entities), indexFirst)

\* C6 as stated: per property its field statement, then its implicit index,
\* then recursively its nested fields and their indexes.
C6_OrderingAsStated == Fresh => Statements = OutputOf(rendered.entities, TRUE)

\* C6 as amended: per property its field statement, then recursively its
\* nested fields (each followed by its own nested fields and then its own
\* index), then the property's implicit index; so a field's implicit index
\* is emitted after the statements of its nested fields and before any
\* statement of the next property.
C6_Ordering == Fresh => Statements = OutputOf(rendered.entities, FALSE)

\* A table with table-level indexes and an indexed composite property that
\* has nested fields was rendered.
C6_Witness ==
  /\ Fresh
  /\ \E et \in RenderedTables :
       /\ DescriptorOf(et[1]).indexes # <<>>
       /\ \E i \in 1..Len(TopNodes(et[1])) :
            /\ Flagged(TopNodes(et[1])[i].cfg)
            /\ ChildrenOf(TopNodes(et[1])[i]) # <<>>
            /\ i < Len(TopNodes(et[1]))
  /\ Statements = OutputOf(rendered.entities, FALSE)

(***************************************************************************)
(* C10.  Type string of a non-primary composite field: with a plain string *)
(* typed it is object for kind object and <type><typed> (with $$generic    *)
(* substituted) for the other kinds; with a nested-schema reference it is  *)
(* object for kind object and <type><object> otherwise; with no typed it   *)
(* is the bare <type>.                                                     *)
(***************************************************************************)
SpecCompositeType(table, cfg) ==
  IF cfg.typed[1] = "str" /\ cfg.typed[2] # ""
  THEN IF cfg.type = "object" THEN "object"
       ELSE cfg.type \o "<"
            \o (IF cfg.typed[2] = "$$generic" THEN GenericOf(table) ELSE cfg.typed[2])
            \o ">"
  ELSE IF cfg.typed[1] = "ref"
  THEN IF cfg.type = "object" THEN "object" ELSE cfg.type \o "<object>"
  ELSE cfg.type

C10_CompositeType ==
  Fresh =>
    \A et \in RenderedTables : \A node \in AllNodes(et[1]) :
      (~node.cfg.primary /\ IsComposite(node.cfg.type)) =>
        SpecFieldStmt(et[2][2], node,
                      Wrapped(node.cfg, SpecCompositeType(et[2], node.cfg))) \in Parts

(***************************************************************************)
(* C11.  A field with primary = true ignores its type and typed at render  *)
(* time: the only statements rendered for it are its field statement with  *)
(* type record<tableName> and its implicit index, the one directly after   *)
(* the other; no nested child-field statement comes from its type/typed.   *)
(* Stated for the top-level primary fields that are not optional.          *)
(***************************************************************************)
PrimaryRun(table, node) ==
  <<SpecFieldStmt(table[2], node, "record<" \o table[2] \o ">"),
    SpecIndexStmt(table[2], node, TRUE)>>

C11_PrimaryIgnoresTyped ==
  Fresh =>
    \A et \in RenderedTables : \A i \in 1..Len(TopNodes(et[1])) :
      LET node == TopNodes(et[1])[i]
      IN (node.cfg.primary /\ ~node.cfg.optional) =>
           /\ Occurs(PrimaryRun(et[2], node))
           /\ \A j \in 1..Len(ChildrenOf(node)) :
                NodeStmt(et[2], ChildrenOf(node)[j]) \notin Parts

(***************************************************************************)
(* C12.  Registering a field or a table on a child declaration never       *)
(* changes a parent declaration's descriptor: across every Field or Table  *)
(* call on C, the tables, schemaMode, indexes and properties read through  *)
(* P.SurrealdbSchema are the same before and after, for every ancestor P   *)
(* of C, whether or not C has a descriptor of its own.                     *)
(***************************************************************************)
\* What P.SurrealdbSchema reads as: undefined, or the descriptor's contents.
DescriptorView(r, p) ==
  IF SchemaHolder(r, p) = "none" THEN <<"undefined">>
  ELSE LET d == r.own[SchemaHolder(r, p)]
       IN <<"defined", d.tables, d.schemaMode, d.indexes, r.heap[d.properties]>>

ParentFrameStep ==
  (Len(log') = Len(log) + 1) =>
    \A p \in AncestorsOf(log'[Len(log')].c) :
      DescriptorView(RegPrime, p) = DescriptorView(Reg, p)

C12_ParentUnchanged == [][ParentFrameStep]_vars

====
